---- MODULE Spec2Model ----
(***************************************************************************)
(* The credential and access-control subsystem of the CRM API              *)
(* (src/main.py): password hashing, token issue and verification, the      *)
(* registration and login flow, and the role / ownership checks of the     *)
(* customer and deal handlers, over the four tables of the remote store    *)
(* (users, customers, deals, audit_logs).                                  *)
(*                                                                         *)
(* One action models one whole request handler, the dependency chain       *)
(* (verify_token, get_current_user) included.  A Python exception that no  *)
(* handler catches is answered by the framework with status 500.           *)
(***************************************************************************)
EXTENDS Integers, Sequences, FiniteSets, TLC

-----------------------------------------------------------------------------
(* Program constants *)

\* JWT_EXPIRE = 1800: the lifetime of a token, in seconds
JWT_EXPIRE == 1800

\* JWT_KEY = os.getenv('JWT_KEY'): the process-wide signing secret
JWT_KEY == "JWT_KEY"

\* a signing secret that is not the process's
OTHER_KEY == "OTHER_KEY"

-----------------------------------------------------------------------------
(* Bounds of the model *)

\* clock ticks per second: the clock is finer than the whole seconds a token's
\* exp claim is encoded in
TicksPerSec == 2

\* rows the users table receives through register and POST /users
MaxUsers == 2

\* events the audit_logs table receives
MaxAudit == 2

\* rows the customers table receives through POST /customers
MaxCustomers == 1

\* rows the deals table receives through POST /deals
MaxDeals == 1

-----------------------------------------------------------------------------
(* Values *)

\* Python None / SQL NULL in a text column
NULL == "NULL"

\* Python None / SQL NULL in an id column (ids are 1, 2, ...; None is falsy and
\* differs from every id, and so does 0)
NoId == 0

Roles == {"sales_rep", "manager", "admin"}

NoHeaders == "-"

Bearer == "WWW-Authenticate: Bearer"

NoBody == [kind |-> "none"]

\* raise HTTPException(status_code, detail, headers)
HTTPException(status_code, detail, headers) ==
    [status |-> status_code, detail |-> detail, headers |-> headers]

\* a handler that returns normally
OK == HTTPException(200, "-", NoHeaders)

\* an exception no handler catches (TypeError, ...): the framework's answer
InternalServerError == HTTPException(500, "Internal Server Error", NoHeaders)

\* the response of one request, with the request it answers
Reply(op, req, http, body) ==
    [op |-> op, req |-> req, status |-> http.status, detail |-> http.detail,
     headers |-> http.headers, body |-> body]

-----------------------------------------------------------------------------
(* Password hashing *)

\* 6969 rounds of hashlib.sha256(salted.encode()).hexdigest(), the digest of
\* one round being the input of the next: a collision-free function of the
\* text it starts from
Sha256Rounds(salted) == "sha256x6969(" \o salted \o ")"

\* a hashing that draws a salt whether or not one is supplied
custom_hash_password_resalts(password, salt, fresh) ==
    [hashed |-> Sha256Rounds(password \o fresh), salt |-> fresh]

\* custom_hash_password(password, salt): fresh is what secrets.token_hex(32)
\* returns in this call, used when no salt is supplied
custom_hash_password(password, salt, fresh) ==
    LET s == IF salt = NULL THEN fresh ELSE salt
    IN  [hashed |-> Sha256Rounds(password \o s), salt |-> s]

\* verify(password, hashed, salt)
verify(password, hashed, salt, fresh) ==
    custom_hash_password(password, salt, fresh).hashed = hashed

-----------------------------------------------------------------------------
(* Tokens *)

\* a string that is no JWT
Garbage == [form |-> "garbage", sub |-> NoId, exp |-> 0, key |-> NULL]

\* a token issued without its lifetime: exp is the time of issue
create_jwt_token_no_lifetime(data, t) ==
    [form |-> "jwt", sub |-> data.sub, exp |-> t \div TicksPerSec, key |-> JWT_KEY]

\* create_jwt_token(data) at clock t (in ticks): the payload is data plus
\* exp = utcnow() + 1800 s, which jwt.encode writes as a NumericDate in whole
\* seconds (timegm of the datetime: the fraction of the second is dropped),
\* signed with JWT_KEY
create_jwt_token(data, t) ==
    [form |-> "jwt", sub |-> data.sub, exp |-> (t \div TicksPerSec) + JWT_EXPIRE,
     key |-> JWT_KEY]

\* the parameters of create_jwt_token's signature
create_jwt_token_params == {"data"}

\* a call create_jwt_token(**kwargs): TypeError unless the signature has every
\* keyword passed
CallRaisesTypeError(params, kwargs) == ~(kwargs \subseteq params)

\* the keywords the handlers pass: create_jwt_token(data=..., expires_delta=...)
HandlerTokenKwargs == {"data", "expires_delta"}

\* a decode that does not look at exp
jwt_decode_skips_exp(token, t) ==
    IF token.form # "jwt" THEN "DecodeError"
    ELSE IF token.key # JWT_KEY THEN "InvalidSignatureError"
    ELSE "payload"

\* jwt.decode(token, JWT_KEY, algorithms=[JWT_ALGO]) at clock t: the signature
\* is checked first, then exp against the current time (expired once
\* exp <= now)
jwt_decode(token, t) ==
    IF token.form # "jwt" THEN "DecodeError"
    ELSE IF token.key # JWT_KEY THEN "InvalidSignatureError"
    ELSE IF token.exp * TicksPerSec <= t THEN "ExpiredSignatureError"
    ELSE "payload"

CredentialsError == HTTPException(401, "Could not validate credentials", Bearer)

\* a verify_token that hands on a payload without sub
verify_token_keeps_null_sub(token, t) ==
    IF jwt_decode(token, t) # "payload"
    THEN [http |-> CredentialsError, user_id |-> NoId]
    ELSE [http |-> OK, user_id |-> token.sub]

\* verify_token(credentials): the user id, or the HTTPException raised
verify_token(token, t) ==
    IF jwt_decode(token, t) # "payload"
    THEN [http |-> CredentialsError, user_id |-> NoId]
    ELSE IF token.sub = NoId
    THEN [http |-> CredentialsError, user_id |-> NoId]
    ELSE [http |-> OK, user_id |-> token.sub]

-----------------------------------------------------------------------------
(* State *)

VARIABLES
    users,        \* the users table: a set of rows
    customers,    \* the customers table
    deals,        \* the deals table
    audit_logs,   \* the audit_logs table, in insertion order
    seq,          \* the id sequences of users, customers and deals
    audit_up,     \* whether an insert into audit_logs succeeds
    now,          \* the wall clock, in ticks
    issued,       \* tokens minted by create_jwt_token, with their issue time
    resp,         \* the last request and its response
    inflight      \* requests a worker thread holds between two statements

vars == <<users, customers, deals, audit_logs, seq, audit_up, now, issued, resp,
          inflight>>

tables == <<users, customers, deals, audit_logs>>

NoReply == Reply("none", [x |-> 0], OK, NoBody)

\* an empty store, a process just started
Init ==
    /\ users = {}
    /\ customers = {}
    /\ deals = {}
    /\ audit_logs = <<>>
    /\ seq = [users |-> 0, customers |-> 0, deals |-> 0]
    /\ audit_up = TRUE
    /\ now = 0
    /\ issued = {}
    /\ resp = NoReply
    /\ inflight = {}

-----------------------------------------------------------------------------
(* Helpers of the handlers *)

NoUser ==
    [id |-> NoId, name |-> NULL, email |-> NULL, password_hash |-> NULL,
     password_salt |-> NULL, role |-> NULL, password |-> NULL]

\* get_client_info(request) returns the tuple (ip, agent)
get_client_info == [shape |-> "tuple"]

\* f(**x): TypeError unless x is a mapping
KwargsSplatRaises(x) == x.shape # "mapping"

AuditEvent(user_id, action, type, resource_id, details) ==
    [user_id |-> user_id, action |-> action, type |-> type,
     resource_id |-> resource_id, details |-> details]

\* a log that keeps the latest event only
log_audit_event_keeps_latest(event) ==
    audit_logs' = IF audit_up THEN <<event>> ELSE audit_logs

\* log_audit_event(...): one insert into audit_logs; an insert that fails is
\* printed and swallowed
log_audit_event(event) ==
    audit_logs' = IF audit_up THEN Append(audit_logs, event) ELSE audit_logs

\* the bound on the audit_logs table: an event that would be stored needs room
AuditRoom == audit_up => Len(audit_logs) < MaxAudit

\* a get_current_user that takes the token's word for the user
get_current_user_trusts_token(token, t) ==
    LET v == verify_token(token, t)
        found == {u \in users : u.id = v.user_id}
    IN  IF v.http.status # 200 THEN [http |-> v.http, user |-> NoUser]
        ELSE IF found = {}
        THEN [http |-> OK, user |-> [NoUser EXCEPT !.id = v.user_id, !.role = "sales_rep"]]
        ELSE [http |-> OK, user |-> CHOOSE u \in found : TRUE]

\* get_current_user(user_id = Depends(verify_token)): the users row of the
\* token's sub, or the HTTPException raised on the way
get_current_user(token, t) ==
    LET v == verify_token(token, t)
        found == {u \in users : u.id = v.user_id}
    IN  IF v.http.status # 200 THEN [http |-> v.http, user |-> NoUser]
        ELSE IF found = {}
        THEN [http |-> HTTPException(401, "User not found", NoHeaders), user |-> NoUser]
        ELSE [http |-> OK, user |-> CHOOSE u \in found : TRUE]

TokenBody(token) == [kind |-> "token", access_token |-> token, token_type |-> "bearer"]

\* token = create_jwt_token(data={"sub": user_id}, expires_delta=token_expiry),
\* then return {"access_token": token, "token_type": "bearer"}; the outcome of
\* a handler from this call on, when nothing lies between the two
IssueTokenFor(op, req, user_id) ==
    IF CallRaisesTypeError(create_jwt_token_params, HandlerTokenKwargs)
    THEN Reply(op, req, InternalServerError, NoBody)
    ELSE Reply(op, req, OK, TokenBody(create_jwt_token([sub |-> user_id], now)))

-----------------------------------------------------------------------------
(* POST /auth/register *)

EmailRegistered == HTTPException(400, "Email already registered", NoHeaders)

\* the row register inserts; the store assigns the id
RegisterRow(id, user_data, fresh) ==
    LET h == custom_hash_password(user_data.password, NULL, fresh)
    IN  [id |-> id, name |-> user_data.name, email |-> user_data.email,
         password_hash |-> h.hashed, password_salt |-> h.salt,
         role |-> user_data.role, password |-> NULL]

\* the branch of register for an email some row holds: the REGISTER_FAILED
\* event is logged with **client_info, then 400 is raised
RegisterDuplicate(req) ==
    IF KwargsSplatRaises(get_client_info)
    THEN /\ resp' = Reply("register", req, InternalServerError, NoBody)
         /\ UNCHANGED audit_logs
    ELSE /\ AuditRoom
         /\ log_audit_event(AuditEvent(NoId, "REGISTER_FAILED", "user", NoId,
                                       "Email already registered"))
         /\ resp' = Reply("register", req, EmailRegistered, NoBody)

\* the rest of register once the row is inserted: the token is made, the
\* REGISTER event is logged with **client_info, the token is returned
RegisterIssue(req, user_id) ==
    LET made == IssueTokenFor("register", req, user_id)
    IN  IF made.status # 200
        THEN /\ resp' = made
             /\ UNCHANGED audit_logs
        ELSE IF KwargsSplatRaises(get_client_info)
        THEN /\ resp' = Reply("register", req, InternalServerError, NoBody)
             /\ UNCHANGED audit_logs
        ELSE /\ AuditRoom
             /\ log_audit_event(AuditEvent(user_id, "REGISTER", "user", user_id,
                                           req.email))
             /\ resp' = made

register(user_data, fresh) ==
    LET req == [email |-> user_data.email, name |-> user_data.name,
                role |-> user_data.role]
        exist == {u \in users : u.email = user_data.email}
        id == seq.users + 1
    IN  /\ IF exist # {}
           THEN /\ RegisterDuplicate(req)
                /\ UNCHANGED <<users, seq>>
           ELSE /\ seq.users < MaxUsers
                /\ users' = users \cup {RegisterRow(id, user_data, fresh)}
                /\ seq' = [seq EXCEPT !.users = id]
                /\ RegisterIssue(req, id)
        /\ UNCHANGED <<customers, deals, audit_up, now, issued, inflight>>

-----------------------------------------------------------------------------
(* POST /auth/login *)

\* a login that tells the caller the email is unknown
LoginUnknownEmail_reveals == HTTPException(401, "User not found", Bearer)

\* the 401 of login for an email no row holds
LoginUnknownEmail == HTTPException(401, "Incorrect email or password", Bearer)

\* the 401 of login for a password that does not verify
LoginBadPassword == HTTPException(401, "Incorrect email or password", Bearer)

\* the event login logs for an email no row holds
LoginUnknownEvent ==
    AuditEvent(NoId, "LOGIN_FAILED", "user", NoId, "User not found")

\* a login that logs a wrong password without the user it matched
LoginBadPasswordEvent_anonymous(user_data) ==
    AuditEvent(NoId, "LOGIN_FAILED", "user", NoId, "Invalid password")

\* the event login logs for a password that does not verify
LoginBadPasswordEvent(user_data) ==
    AuditEvent(user_data.id, "LOGIN_FAILED", "user", NoId, "Invalid password")

\* the rest of login once the password is verified: the token is made, the
\* LOGIN event is logged, the token is returned
LoginIssue(req, user_data) ==
    LET made == IssueTokenFor("login", req, user_data.id)
    IN  IF made.status # 200
        THEN /\ resp' = made
             /\ UNCHANGED audit_logs
        ELSE /\ AuditRoom
             /\ log_audit_event(AuditEvent(user_data.id, "LOGIN", "user", NoId, req.email))
             /\ resp' = made

\* user.data[0] is any row with the email: the query states no order
login(user_credentials, fresh) ==
    LET req == [email |-> user_credentials.email,
                password |-> user_credentials.password]
        user == {u \in users : u.email = user_credentials.email}
    IN  /\ IF user = {}
           THEN /\ AuditRoom
                /\ log_audit_event(LoginUnknownEvent)
                /\ resp' = Reply("login", req, LoginUnknownEmail, NoBody)
           ELSE \E user_data \in user :
                    IF ~verify(user_credentials.password, user_data.password_hash,
                               user_data.password_salt, fresh)
                    THEN /\ AuditRoom
                         /\ log_audit_event(LoginBadPasswordEvent(user_data))
                         /\ resp' = Reply("login", req, LoginBadPassword, NoBody)
                    ELSE LoginIssue(req, user_data)
        /\ UNCHANGED <<users, customers, deals, seq, audit_up, now, issued, inflight>>

-----------------------------------------------------------------------------
(* POST /auth/refresh, GET /auth/me, POST /auth/change-password *)

refresh_token(token) ==
    LET req == [token |-> token]
        current == get_current_user(token, now)
    IN  /\ resp' = IF current.http.status # 200
                   THEN Reply("refresh_token", req, current.http, NoBody)
                   ELSE IssueTokenFor("refresh_token", req, current.user.id)
        /\ UNCHANGED <<users, customers, deals, audit_logs, seq, audit_up, now, issued, inflight>>

UserInfo(current_user) ==
    [kind |-> "user_info", id |-> current_user.id, name |-> current_user.name,
     email |-> current_user.email, role |-> current_user.role]

get_current_user_info(token) ==
    LET req == [token |-> token]
        current == get_current_user(token, now)
    IN  /\ resp' = IF current.http.status # 200
                   THEN Reply("get_current_user_info", req, current.http, NoBody)
                   ELSE Reply("get_current_user_info", req, OK, UserInfo(current.user))
        /\ UNCHANGED <<users, customers, deals, audit_logs, seq, audit_up, now, issued, inflight>>

WrongCurrentPassword == HTTPException(400, "Current password is incorrect", NoHeaders)

\* a change of password that does not ask for the current one
change_password_unchecked(token, password_data, fresh) ==
    LET req == [token |-> token, current_password |-> password_data.current_password,
                new_password |-> password_data.new_password]
        current == get_current_user(token, now)
        u == current.user
        h == custom_hash_password(password_data.new_password, NULL, fresh)
    IN  /\ IF current.http.status # 200
           THEN /\ resp' = Reply("change_password", req, current.http, NoBody)
                /\ UNCHANGED users
           ELSE /\ users' = (users \ {u}) \cup
                        {[u EXCEPT !.password_hash = h.hashed, !.password_salt = h.salt]}
                /\ resp' = Reply("change_password", req, OK,
                                 [kind |-> "message", message |-> "Password changed successfully"])
        /\ UNCHANGED <<customers, deals, audit_logs, seq, audit_up, now, issued, inflight>>

change_password(token, password_data, fresh) ==
    LET req == [token |-> token, current_password |-> password_data.current_password,
                new_password |-> password_data.new_password]
        current == get_current_user(token, now)
        u == current.user
        h == custom_hash_password(password_data.new_password, NULL, fresh)
    IN  /\ IF current.http.status # 200
           THEN /\ resp' = Reply("change_password", req, current.http, NoBody)
                /\ UNCHANGED users
           ELSE IF ~verify(password_data.current_password, u.password_hash,
                           u.password_salt, fresh)
           THEN /\ resp' = Reply("change_password", req, WrongCurrentPassword, NoBody)
                /\ UNCHANGED users
           ELSE /\ users' = (users \ {u}) \cup
                        {[u EXCEPT !.password_hash = h.hashed, !.password_salt = h.salt]}
                /\ resp' = Reply("change_password", req, OK,
                                 [kind |-> "message", message |-> "Password changed successfully"])
        /\ UNCHANGED <<customers, deals, audit_logs, seq, audit_up, now, issued, inflight>>

-----------------------------------------------------------------------------
(* POST /users, DELETE /users/{user_id} *)

\* POST /users is routed to the first handler registered for it,
\* create_user(name, email, password): the row holds the password as given and
\* no hash, salt or role.  accepted: whether the store takes the row (the
\* schema of the users table is the store's, not the repository's).
create_user(name, email, password, accepted) ==
    LET req == [name |-> name, email |-> email]
        id == seq.users + 1
        row == [NoUser EXCEPT !.id = id, !.name = name, !.email = email,
                              !.password = password]
    IN  /\ IF accepted
           THEN /\ seq.users < MaxUsers
                /\ users' = users \cup {row}
                /\ seq' = [seq EXCEPT !.users = id]
                /\ resp' = Reply("create_user", req, OK, [kind |-> "rows", rows |-> {row}])
           ELSE /\ resp' = Reply("create_user", req, InternalServerError, NoBody)
                /\ UNCHANGED <<users, seq>>
        /\ UNCHANGED <<customers, deals, audit_logs, audit_up, now, issued, inflight>>

\* db.table("users").delete().where("id", user_id).execute().  applied: whether
\* the store carries the delete out (a query builder without .where raises
\* AttributeError; a row that customers or deals reference may be kept by their
\* foreign keys).
delete_user(user_id, applied) ==
    LET req == [user_id |-> user_id]
    IN  /\ IF applied
           THEN /\ users' = {u \in users : u.id # user_id}
                /\ resp' = Reply("delete_user", req, OK,
                                 [kind |-> "message", message |-> "User deleted successfully"])
           ELSE /\ resp' = Reply("delete_user", req, InternalServerError, NoBody)
                /\ UNCHANGED users
        /\ UNCHANGED <<customers, deals, audit_logs, seq, audit_up, now, issued, inflight>>

-----------------------------------------------------------------------------
(* Customers *)

\* a field the request body does not set (dict(exclude_unset=True) leaves it out)
UNSET == -1

\* data.get('assigned_to') is truthy: the field is set and not None
Truthy(id) == id # UNSET /\ id # NoId

\* the value a column takes from a field that is unset or None
Column(id) == IF Truthy(id) THEN id ELSE NoId

UserExists(id) == \E u \in users : u.id = id

AssignedUserNotFound == HTTPException(400, "Assigned user not found", NoHeaders)

CustomerNotFound == HTTPException(404, "Customer not found", NoHeaders)

DealNotFound == HTTPException(404, "Deal not found", NoHeaders)

Forbidden(detail) == HTTPException(403, detail, NoHeaders)

\* a check that lets a sales_rep at a record nobody is assigned to
NotOwner_unassigned_open(current_user, row) ==
    /\ current_user.role = "sales_rep"
    /\ row.assigned_to # NoId
    /\ row.assigned_to # current_user.id

\* current_user["role"] == "sales_rep" and
\* row.get("assigned_to") != current_user["id"]: the ownership check of the
\* six handlers of /customers/{id} and /deals/{deal_id}
NotOwner(current_user, row) ==
    /\ current_user.role = "sales_rep"
    /\ row.assigned_to # current_user.id

Rows(rows) == [kind |-> "rows", rows |-> rows]

Row(row) == [kind |-> "row", row |-> row]

\* GET /customers
list_customers(token, assigned_to) ==
    LET req == [token |-> token, assigned_to |-> assigned_to]
        current == get_current_user(token, now)
        result == IF Truthy(assigned_to)
                  THEN {c \in customers : c.assigned_to = assigned_to}
                  ELSE IF current.user.role = "sales_rep"
                  THEN {c \in customers : c.assigned_to = current.user.id}
                  ELSE customers
    IN  /\ IF current.http.status # 200
           THEN /\ resp' = Reply("list_customers", req, current.http, NoBody)
                /\ UNCHANGED audit_logs
           ELSE /\ AuditRoom
                /\ log_audit_event(AuditEvent(current.user.id, "READ", "customer", NoId, "-"))
                /\ resp' = Reply("list_customers", req, OK, Rows(result))
        /\ UNCHANGED <<users, customers, deals, seq, audit_up, now, issued, inflight>>

\* POST /customers
create_customer(token, customer) ==
    LET req == [token |-> token, name |-> customer.name,
                assigned_to |-> customer.assigned_to]
        current == get_current_user(token, now)
        id == seq.customers + 1
        row == [id |-> id, name |-> customer.name,
                assigned_to |-> Column(customer.assigned_to)]
    IN  /\ IF current.http.status # 200
           THEN /\ resp' = Reply("create_customer", req, current.http, NoBody)
                /\ UNCHANGED <<customers, seq, audit_logs>>
           ELSE IF Truthy(customer.assigned_to) /\ ~UserExists(customer.assigned_to)
           THEN /\ resp' = Reply("create_customer", req, AssignedUserNotFound, NoBody)
                /\ UNCHANGED <<customers, seq, audit_logs>>
           ELSE /\ seq.customers < MaxCustomers
                /\ AuditRoom
                /\ customers' = customers \cup {row}
                /\ seq' = [seq EXCEPT !.customers = id]
                /\ log_audit_event(AuditEvent(current.user.id, "CREATE", "customer", id, "-"))
                /\ resp' = Reply("create_customer", req, OK, Rows({row}))
        /\ UNCHANGED <<users, deals, audit_up, now, issued, inflight>>

\* the row after db.table(...).update(data): name is always set, assigned_to
\* when the body sets it (None clears it)
Updated(row, name, assigned_to) ==
    [row EXCEPT !.name = name,
                !.assigned_to = IF assigned_to = UNSET THEN @ ELSE Column(assigned_to)]

\* PUT /customers/{id}
update_customer(token, id, customer) ==
    LET req == [token |-> token, id |-> id, name |-> customer.name,
                assigned_to |-> customer.assigned_to]
        current == get_current_user(token, now)
        existing == {c \in customers : c.id = id}
    IN  /\ IF current.http.status # 200
           THEN /\ resp' = Reply("update_customer", req, current.http, NoBody)
                /\ UNCHANGED <<customers, audit_logs>>
           ELSE IF existing = {}
           THEN /\ resp' = Reply("update_customer", req, CustomerNotFound, NoBody)
                /\ UNCHANGED <<customers, audit_logs>>
           ELSE \E old \in existing :
                IF NotOwner(current.user, old)
                THEN /\ resp' = Reply("update_customer", req,
                                      Forbidden("Not authorized to update this customer"), NoBody)
                     /\ UNCHANGED <<customers, audit_logs>>
                ELSE IF Truthy(customer.assigned_to) /\ ~UserExists(customer.assigned_to)
                THEN /\ resp' = Reply("update_customer", req, AssignedUserNotFound, NoBody)
                     /\ UNCHANGED <<customers, audit_logs>>
                ELSE LET new == Updated(old, customer.name, customer.assigned_to)
                     IN  /\ AuditRoom
                         /\ customers' = (customers \ {old}) \cup {new}
                         /\ log_audit_event(AuditEvent(current.user.id, "UPDATE",
                                                       "customer", id, "-"))
                         /\ resp' = Reply("update_customer", req, OK, Rows({new}))
        /\ UNCHANGED <<users, deals, seq, audit_up, now, issued, inflight>>

\* DELETE /customers/{id}: the row is deleted, then the DELETE event is logged
\* with **client_info and {"ok": True} returned
delete_customer(token, id) ==
    LET req == [token |-> token, id |-> id]
        current == get_current_user(token, now)
        existing == {c \in customers : c.id = id}
    IN  /\ IF current.http.status # 200
           THEN /\ resp' = Reply("delete_customer", req, current.http, NoBody)
                /\ UNCHANGED <<customers, audit_logs>>
           ELSE IF existing = {}
           THEN /\ resp' = Reply("delete_customer", req, CustomerNotFound, NoBody)
                /\ UNCHANGED <<customers, audit_logs>>
           ELSE \E old \in existing :
                IF NotOwner(current.user, old)
                THEN /\ resp' = Reply("delete_customer", req,
                                      Forbidden("Not authorized to delete this customer"), NoBody)
                     /\ UNCHANGED <<customers, audit_logs>>
                ELSE /\ customers' = customers \ {old}
                     /\ IF KwargsSplatRaises(get_client_info)
                        THEN /\ resp' = Reply("delete_customer", req, InternalServerError, NoBody)
                             /\ UNCHANGED audit_logs
                        ELSE /\ AuditRoom
                             /\ log_audit_event(AuditEvent(current.user.id, "DELETE",
                                                           "customer", id, "-"))
                             /\ resp' = Reply("delete_customer", req, OK, [kind |-> "ok"])
        /\ UNCHANGED <<users, deals, seq, audit_up, now, issued, inflight>>

\* GET /customers/{id}
get_customer(token, id) ==
    LET req == [token |-> token, id |-> id]
        current == get_current_user(token, now)
        customer == {c \in customers : c.id = id}
    IN  /\ resp' = IF current.http.status # 200
                   THEN Reply("get_customer", req, current.http, NoBody)
                   ELSE IF customer = {}
                   THEN Reply("get_customer", req, CustomerNotFound, NoBody)
                   ELSE LET row == CHOOSE c \in customer : TRUE
                        IN  IF NotOwner(current.user, row)
                            THEN Reply("get_customer", req,
                                       Forbidden("Not authorized to view this customer"), NoBody)
                            ELSE Reply("get_customer", req, OK, Row(row))
        /\ UNCHANGED <<users, customers, deals, audit_logs, seq, audit_up, now, issued, inflight>>

\* PUT /customers/{id}/assign: no token is asked for
assign_customer(id, assignment) ==
    LET req == [id |-> id, assigned_to |-> assignment.assigned_to]
        customer == {c \in customers : c.id = id}
    IN  /\ IF ~UserExists(assignment.assigned_to)
           THEN /\ resp' = Reply("assign_customer", req,
                                 HTTPException(400, "User not found", NoHeaders), NoBody)
                /\ UNCHANGED customers
           ELSE IF customer = {}
           THEN /\ resp' = Reply("assign_customer", req, CustomerNotFound, NoBody)
                /\ UNCHANGED customers
           ELSE /\ customers' = {IF c.id = id
                                 THEN [c EXCEPT !.assigned_to = assignment.assigned_to]
                                 ELSE c : c \in customers}
                /\ resp' = Reply("assign_customer", req, OK, [kind |-> "ok"])
        /\ UNCHANGED <<users, deals, audit_logs, seq, audit_up, now, issued, inflight>>

-----------------------------------------------------------------------------
(* Deals *)

\* a GET /deals that scopes nobody: without a filter everyone gets every deal
list_deals_unscoped(token, assigned_to) ==
    LET req == [token |-> token, assigned_to |-> assigned_to]
        current == get_current_user(token, now)
        result == IF Truthy(assigned_to)
                  THEN {d \in deals : d.assigned_to = assigned_to}
                  ELSE deals
    IN  /\ resp' = IF current.http.status # 200
                   THEN Reply("list_deals", req, current.http, NoBody)
                   ELSE Reply("list_deals", req, OK, Rows(result))
        /\ UNCHANGED <<users, customers, deals, audit_logs, seq, audit_up, now, issued, inflight>>

\* GET /deals
list_deals(token, assigned_to) ==
    LET req == [token |-> token, assigned_to |-> assigned_to]
        current == get_current_user(token, now)
        result == IF Truthy(assigned_to)
                  THEN {d \in deals : d.assigned_to = assigned_to}
                  ELSE IF current.user.role = "sales_rep"
                  THEN {d \in deals : d.assigned_to = current.user.id}
                  ELSE deals
    IN  /\ resp' = IF current.http.status # 200
                   THEN Reply("list_deals", req, current.http, NoBody)
                   ELSE Reply("list_deals", req, OK, Rows(result))
        /\ UNCHANGED <<users, customers, deals, audit_logs, seq, audit_up, now, issued, inflight>>

\* POST /deals: a sales_rep who names nobody is assigned the deal
create_deal(token, deal) ==
    LET req == [token |-> token, title |-> deal.title, assigned_to |-> deal.assigned_to,
                customer_id |-> deal.customer_id]
        current == get_current_user(token, now)
        assigned_to == IF ~Truthy(deal.assigned_to) /\ current.user.role = "sales_rep"
                       THEN current.user.id
                       ELSE deal.assigned_to
        id == seq.deals + 1
        row == [id |-> id, title |-> deal.title, assigned_to |-> Column(assigned_to),
                customer_id |-> Column(deal.customer_id)]
    IN  /\ IF current.http.status # 200
           THEN /\ resp' = Reply("create_deal", req, current.http, NoBody)
                /\ UNCHANGED <<deals, seq>>
           ELSE IF Truthy(assigned_to) /\ ~UserExists(assigned_to)
           THEN /\ resp' = Reply("create_deal", req, AssignedUserNotFound, NoBody)
                /\ UNCHANGED <<deals, seq>>
           ELSE IF Truthy(deal.customer_id) /\ ~(\E c \in customers : c.id = deal.customer_id)
           THEN /\ resp' = Reply("create_deal", req,
                                 HTTPException(400, "Customer not found", NoHeaders), NoBody)
                /\ UNCHANGED <<deals, seq>>
           ELSE /\ seq.deals < MaxDeals
                /\ deals' = deals \cup {row}
                /\ seq' = [seq EXCEPT !.deals = id]
                /\ resp' = Reply("create_deal", req, OK, Rows({row}))
        /\ UNCHANGED <<users, customers, audit_logs, audit_up, now, issued, inflight>>

\* the deal after db.table("deals").update(data): title is always set,
\* assigned_to and customer_id when the body sets them
UpdatedDeal(row, deal) ==
    [row EXCEPT !.title = deal.title,
                !.assigned_to = IF deal.assigned_to = UNSET THEN @
                                ELSE Column(deal.assigned_to),
                !.customer_id = IF deal.customer_id = UNSET THEN @
                                ELSE Column(deal.customer_id)]

\* PUT /deals/{deal_id}
update_deal(token, deal_id, deal) ==
    LET req == [token |-> token, id |-> deal_id, title |-> deal.title,
                assigned_to |-> deal.assigned_to, customer_id |-> deal.customer_id]
        current == get_current_user(token, now)
        existing == {d \in deals : d.id = deal_id}
    IN  /\ IF current.http.status # 200
           THEN /\ resp' = Reply("update_deal", req, current.http, NoBody)
                /\ UNCHANGED deals
           ELSE IF existing = {}
           THEN /\ resp' = Reply("update_deal", req, DealNotFound, NoBody)
                /\ UNCHANGED deals
           ELSE \E old \in existing :
                IF NotOwner(current.user, old)
                THEN /\ resp' = Reply("update_deal", req,
                                      Forbidden("Not authorized to update this deal"), NoBody)
                     /\ UNCHANGED deals
                ELSE IF Truthy(deal.assigned_to) /\ ~UserExists(deal.assigned_to)
                THEN /\ resp' = Reply("update_deal", req, AssignedUserNotFound, NoBody)
                     /\ UNCHANGED deals
                ELSE LET new == UpdatedDeal(old, deal)
                     IN  /\ deals' = (deals \ {old}) \cup {new}
                         /\ resp' = Reply("update_deal", req, OK, Rows({new}))
        /\ UNCHANGED <<users, customers, audit_logs, seq, audit_up, now, issued, inflight>>

\* DELETE /deals/{deal_id}
delete_deal(token, deal_id) ==
    LET req == [token |-> token, id |-> deal_id]
        current == get_current_user(token, now)
        existing == {d \in deals : d.id = deal_id}
    IN  /\ IF current.http.status # 200
           THEN /\ resp' = Reply("delete_deal", req, current.http, NoBody)
                /\ UNCHANGED deals
           ELSE IF existing = {}
           THEN /\ resp' = Reply("delete_deal", req, DealNotFound, NoBody)
                /\ UNCHANGED deals
           ELSE \E old \in existing :
                IF NotOwner(current.user, old)
                THEN /\ resp' = Reply("delete_deal", req,
                                      Forbidden("Not authorized to delete this deal"), NoBody)
                     /\ UNCHANGED deals
                ELSE /\ deals' = deals \ {old}
                     /\ resp' = Reply("delete_deal", req, OK, [kind |-> "ok"])
        /\ UNCHANGED <<users, customers, audit_logs, seq, audit_up, now, issued, inflight>>

\* GET /deals/{deal_id}
get_deal(token, deal_id) ==
    LET req == [token |-> token, id |-> deal_id]
        current == get_current_user(token, now)
        deal == {d \in deals : d.id = deal_id}
    IN  /\ resp' = IF current.http.status # 200
                   THEN Reply("get_deal", req, current.http, NoBody)
                   ELSE IF deal = {}
                   THEN Reply("get_deal", req, DealNotFound, NoBody)
                   ELSE LET row == CHOOSE d \in deal : TRUE
                        IN  IF NotOwner(current.user, row)
                            THEN Reply("get_deal", req,
                                       Forbidden("Not authorized to view this deal"), NoBody)
                            ELSE Reply("get_deal", req, OK, Row(row))
        /\ UNCHANGED <<users, customers, deals, audit_logs, seq, audit_up, now, issued, inflight>>

\* PUT /deals/{deal_id}/assign: no token is asked for
assign_deal(deal_id, assignment) ==
    LET req == [id |-> deal_id, assigned_to |-> assignment.assigned_to]
        deal == {d \in deals : d.id = deal_id}
    IN  /\ IF ~UserExists(assignment.assigned_to)
           THEN /\ resp' = Reply("assign_deal", req,
                                 HTTPException(400, "User not found", NoHeaders), NoBody)
                /\ UNCHANGED deals
           ELSE IF deal = {}
           THEN /\ resp' = Reply("assign_deal", req, DealNotFound, NoBody)
                /\ UNCHANGED deals
           ELSE /\ deals' = {IF d.id = deal_id
                             THEN [d EXCEPT !.assigned_to = assignment.assigned_to]
                             ELSE d : d \in deals}
                /\ resp' = Reply("assign_deal", req, OK, [kind |-> "ok"])
        /\ UNCHANGED <<users, customers, audit_logs, seq, audit_up, now, issued, inflight>>

-----------------------------------------------------------------------------
(* Audit-log views and the text-generation endpoints *)

\* the role check of GET /audit-logs and GET /audit-logs/resource/...
NotAuditViewer(current_user) == current_user.role \notin {"admin", "manager"}

\* what follows the role check in the three audit-log views: the events are
\* selected, the view is logged with **client_info, the events are returned
AuditView(op, req, current_user, selected, action) ==
    IF KwargsSplatRaises(get_client_info)
    THEN /\ resp' = Reply(op, req, InternalServerError, NoBody)
         /\ UNCHANGED audit_logs
    ELSE /\ AuditRoom
         /\ log_audit_event(AuditEvent(current_user.id, action, "audit_log", NoId, "-"))
         /\ resp' = Reply(op, req, OK, Rows(selected))

\* the rows of the audit_logs table
AuditRows == {audit_logs[i] : i \in DOMAIN audit_logs}

\* GET /audit-logs
get_audit_logs(token, user_id) ==
    LET req == [token |-> token, user_id |-> user_id]
        current == get_current_user(token, now)
        Keep(e) == Truthy(user_id) => e.user_id = user_id
    IN  /\ IF current.http.status # 200
           THEN /\ resp' = Reply("get_audit_logs", req, current.http, NoBody)
                /\ UNCHANGED audit_logs
           ELSE IF NotAuditViewer(current.user)
           THEN /\ resp' = Reply("get_audit_logs", req,
                                 Forbidden("Not authorized to view audit logs"), NoBody)
                /\ UNCHANGED audit_logs
           ELSE AuditView("get_audit_logs", req, current.user, {e \in AuditRows : Keep(e)},
                          "VIEW_AUDIT_LOGS")
        /\ UNCHANGED <<users, customers, deals, seq, audit_up, now, issued, inflight>>

\* GET /audit-logs/user/{user_id}
get_user_audit_logs(token, user_id) ==
    LET req == [token |-> token, user_id |-> user_id]
        current == get_current_user(token, now)
        Keep(e) == e.user_id = user_id
    IN  /\ IF current.http.status # 200
           THEN /\ resp' = Reply("get_user_audit_logs", req, current.http, NoBody)
                /\ UNCHANGED audit_logs
           ELSE IF current.user.id # user_id /\ NotAuditViewer(current.user)
           THEN /\ resp' = Reply("get_user_audit_logs", req,
                                 Forbidden("Not authorized to view these audit logs"), NoBody)
                /\ UNCHANGED audit_logs
           ELSE AuditView("get_user_audit_logs", req, current.user, {e \in AuditRows : Keep(e)},
                          "VIEW_USER_AUDIT_LOGS")
        /\ UNCHANGED <<users, customers, deals, seq, audit_up, now, issued, inflight>>

\* GET /audit-logs/resource/{type}/{resource_id}
get_resource_audit_logs(token, type, resource_id) ==
    LET req == [token |-> token, type |-> type, resource_id |-> resource_id]
        current == get_current_user(token, now)
        Keep(e) == e.type = type /\ e.resource_id = resource_id
    IN  /\ IF current.http.status # 200
           THEN /\ resp' = Reply("get_resource_audit_logs", req, current.http, NoBody)
                /\ UNCHANGED audit_logs
           ELSE IF NotAuditViewer(current.user)
           THEN /\ resp' = Reply("get_resource_audit_logs", req,
                                 Forbidden("Not authorized to view resource audit logs"), NoBody)
                /\ UNCHANGED audit_logs
           ELSE AuditView("get_resource_audit_logs", req, current.user, {e \in AuditRows : Keep(e)},
                          "VIEW_RESOURCE_AUDIT_LOGS")
        /\ UNCHANGED <<users, customers, deals, seq, audit_up, now, issued, inflight>>

\* POST /generate-email: customer['name'] subscripts the APIResponse that
\* execute() returned, not a row, so the handler raises TypeError before the
\* text-generation service is called
gen_email(token, customer_id) ==
    LET req == [token |-> token, customer_id |-> customer_id]
        current == get_current_user(token, now)
    IN  /\ resp' = IF current.http.status # 200
                   THEN Reply("gen_email", req, current.http, NoBody)
                   ELSE Reply("gen_email", req, InternalServerError, NoBody)
        /\ UNCHANGED <<users, customers, deals, audit_logs, seq, audit_up, now, issued, inflight>>

\* POST /meeting-prep: reads the customer, its deals and notes and asks the
\* text-generation service.  answered: whether the service returns choices.
meeting_prep(token, customer_id, answered) ==
    LET req == [token |-> token, customer_id |-> customer_id]
        current == get_current_user(token, now)
        customer == {c \in customers : c.id = customer_id}
    IN  /\ resp' = IF current.http.status # 200
                   THEN Reply("meeting_prep", req, current.http, NoBody)
                   ELSE IF customer = {} \/ ~answered
                   THEN Reply("meeting_prep", req, InternalServerError, NoBody)
                   ELSE Reply("meeting_prep", req, OK, [kind |-> "prep"])
        /\ UNCHANGED <<users, customers, deals, audit_logs, seq, audit_up, now, issued, inflight>>

\* @app.post("handle-objection"): the route is registered under a path without
\* the leading "/", which the path of no request matches; POST /handle-objection
\* is dispatched to no route and the router answers 404 before any dependency
\* runs
handle_objection(token) ==
    /\ resp' = Reply("no_route", [token |-> token],
                     HTTPException(404, "Not Found", NoHeaders), NoBody)
    /\ UNCHANGED <<users, customers, deals, audit_logs, seq, audit_up, now, issued, inflight>>

-----------------------------------------------------------------------------
(* The environment: the clock, the audit store, the holders of the key *)

\* the wall clock moves on to t
Tick(t) ==
    /\ t > now
    /\ now' = t
    /\ resp' = NoReply
    /\ UNCHANGED <<users, customers, deals, audit_logs, seq, audit_up, issued, inflight>>

\* the audit_logs table stops, or starts again, taking inserts
AuditStoreOutage ==
    /\ audit_up' = ~audit_up
    /\ resp' = NoReply
    /\ UNCHANGED <<users, customers, deals, audit_logs, seq, now, issued, inflight>>

\* the bound on the tokens the model follows
MaxTokens == 1

\* a holder of the key mints a token: create_jwt_token(data) at the current time
IssueToken(data) ==
    LET token == create_jwt_token(data, now)
    IN  /\ Cardinality(issued) < MaxTokens
        /\ issued' = issued \cup {[data |-> data, token |-> token, at |-> now]}
        /\ resp' = Reply("create_jwt_token", [data |-> data], OK, TokenBody(token))
        /\ UNCHANGED <<users, customers, deals, audit_logs, seq, audit_up, now, inflight>>

\* verify_token is applied to a token at the current time
VerifyToken(token) ==
    LET v == verify_token(token, now)
    IN  /\ resp' = Reply("verify_token", [token |-> token, time |-> now], v.http,
                         [kind |-> "user_id", user_id |-> v.user_id])
        /\ UNCHANGED <<users, customers, deals, audit_logs, seq, audit_up, now, issued, inflight>>

\* the bearer tokens a caller holding the minted tokens can present
Presentable(minted) ==
    minted \cup {[m EXCEPT !.key = OTHER_KEY] : m \in minted} \cup {Garbage}

\* the bearer tokens a caller can present at clock t: what create_jwt_token
\* makes of a sub (or of no sub) at an instant of times up to t, the same
\* signed with another key, and a string that is no token
BearerTokens(subs, times, t) ==
    Presentable({create_jwt_token([sub |-> s], i) :
                     s \in subs \cup {NoId}, i \in {j \in times : j <= t}})

-----------------------------------------------------------------------------
(* The registration and login flow on an empty store *)

Emails == {"a@x.com", "b@x.com"}

Passwords == {"hunter2", "hunter3"}

Names == {"Ann"}

UserIds == 1..MaxUsers

UserCreate == [name : Names, email : Emails, password : {"hunter2"},
               role : {"sales_rep", "admin"}]

UserLogin == [email : Emails, password : Passwords]

Salts == {"5a17"}

Next ==
    \/ \E user_data \in UserCreate, fresh \in Salts : register(user_data, fresh)
    \/ \E user_credentials \in UserLogin, fresh \in Salts : login(user_credentials, fresh)
    \/ \E token \in BearerTokens(UserIds, {0}, now) : refresh_token(token)
    \/ \E token \in BearerTokens(UserIds, {0}, now) : get_current_user_info(token)
    \/ \E name \in Names, email \in Emails, accepted \in BOOLEAN :
           create_user(name, email, "hunter2", accepted)
    \/ AuditStoreOutage

Spec == Init /\ [][Next]_vars

-----------------------------------------------------------------------------
(* Properties of registration and login *)

\* the rows holding an email
RowsWithEmail(email) == {u \in users : u.email = email}

\* the login just answered failed: no row holds the email, or rows hold it and
\* the password verifies against none of them
LoginUnknown(req) == RowsWithEmail(req.email) = {}

LoginWrongPassword(req) ==
    /\ RowsWithEmail(req.email) # {}
    /\ \A u \in RowsWithEmail(req.email) :
           ~verify(req.password, u.password_hash, u.password_salt, NULL)

\* C1: POST /auth/register with an email no row holds creates exactly one new
\* row (with password_hash, password_salt and role) and answers 200 with
\* {access_token, token_type}, the token's sub being the id of the new row.
C1_RegisterReturnsToken ==
    [][(resp'.op = "register" /\ RowsWithEmail(resp'.req.email) = {}) =>
          \E r \in users' \ users :
              /\ users' = users \cup {r}
              /\ r.email = resp'.req.email
              /\ r.role = resp'.req.role
              /\ r.password_hash # NULL
              /\ r.password_salt # NULL
              /\ resp'.status = 200
              /\ resp'.body.kind = "token"
              /\ resp'.body.token_type = "bearer"
              /\ resp'.body.access_token.sub = r.id]_vars

\* C2: registering an email that a row already holds answers 400, never
\* another status, and leaves the users table unchanged.
C2_DuplicateRegisterIs400 ==
    [][(resp'.op = "register" /\ RowsWithEmail(resp'.req.email) # {}) =>
          /\ resp'.status = 400
          /\ users' = users]_vars

\* C3: login with the email and the password of a registered user returns a
\* token, and GET /auth/me with that token returns the id, name, email and
\* role of that user's row.
C3_LoginTokenResolvesToUser ==
    (resp.op = "login" /\ ~LoginUnknown(resp.req) /\ ~LoginWrongPassword(resp.req)) =>
        /\ resp.status = 200
        /\ resp.body.kind = "token"
        /\ LET me == get_current_user(resp.body.access_token, now)
           IN  /\ me.http.status = 200
               /\ me.user.email = resp.req.email
               /\ verify(resp.req.password, me.user.password_hash,
                         me.user.password_salt, NULL)

\* the audit events a failed login may log: LOGIN_FAILED, with no user for an
\* unknown email and with the id of a row holding the email otherwise
LoginFailedEvents(req) ==
    IF LoginUnknown(req)
    THEN {e \in {LoginUnknownEvent} : e.action = "LOGIN_FAILED" /\ e.user_id = NoId}
    ELSE {AuditEvent(u.id, "LOGIN_FAILED", "user", NoId, "Invalid password") :
              u \in RowsWithEmail(req.email)}

LoginFailedStep ==
    /\ resp'.op = "login"
    /\ LoginUnknown(resp'.req) \/ LoginWrongPassword(resp'.req)

\* C4 as stated: every failed login answers 401 without a token and appends
\* exactly one audit event, a LOGIN_FAILED whose user_id is null for an unknown
\* email and the matched user's id for a wrong password.
C4_FailedLoginAppendsOneEvent ==
    [][LoginFailedStep =>
          /\ resp'.status = 401
          /\ resp'.body = NoBody
          /\ \E e \in LoginFailedEvents(resp'.req) :
                 audit_logs' = Append(audit_logs, e)]_vars

\* C4, amended: every failed login answers 401 without a token and makes one
\* insert of a LOGIN_FAILED event (user_id null for an unknown email, the
\* matched user's id for a wrong password): the event is appended when the
\* audit store takes the insert, and nothing is appended when the insert
\* fails; no LOGIN event is appended.
C4_FailedLoginLogsOneEvent ==
    [][LoginFailedStep =>
          /\ resp'.status = 401
          /\ resp'.body = NoBody
          /\ IF audit_up
             THEN \E e \in LoginFailedEvents(resp'.req) :
                      audit_logs' = Append(audit_logs, e)
             ELSE audit_logs' = audit_logs]_vars

\* a login with a wrong password was answered and its event stored
C4_Witness ==
    /\ resp.op = "login"
    /\ LoginWrongPassword(resp.req)
    /\ resp.status = 401
    /\ audit_logs # <<>>
    /\ audit_logs[Len(audit_logs)].action = "LOGIN_FAILED"
    /\ audit_logs[Len(audit_logs)].user_id # NoId

\* C5: the response of a failed login is the same (status 401, same detail,
\* same headers, no body) whether the email is unknown or the password wrong.
C5_FailedLoginResponseUniform ==
    (resp.op = "login" /\ (LoginUnknown(resp.req) \/ LoginWrongPassword(resp.req))) =>
        <<resp.status, resp.detail, resp.headers, resp.body>> =
            <<401, "Incorrect email or password", Bearer, NoBody>>

\* a login with a known email and a wrong password was answered
C5_Witness ==
    /\ resp.op = "login"
    /\ LoginWrongPassword(resp.req)
    /\ resp.status = 401

-----------------------------------------------------------------------------
(* The life of a token: issue, verification and the clock *)

\* the instants the clock is sampled at: every tick of the second 0 and of
\* the seconds around the expiry of a token issued then
Instants ==
    {sec * TicksPerSec + f :
         sec \in {0, JWT_EXPIRE - 1, JWT_EXPIRE, JWT_EXPIRE + 1},
         f \in 0..(TicksPerSec - 1)}

TokenUser == [name |-> "Ann", email |-> "a@x.com", password |-> "hunter2",
              role |-> "sales_rep"]

PasswordChange == [current_password : Passwords, new_password : Passwords]

IssuedTokens == {e.token : e \in issued}

NextToken ==
    \/ \E t \in Instants : Tick(t)
    \/ \E sub \in {1, NoId} : IssueToken([sub |-> sub])
    \/ \E token \in Presentable(IssuedTokens) : VerifyToken(token)
    \/ \E fresh \in Salts : register(TokenUser, fresh)
    \/ \E fresh \in Salts : login([email |-> "a@x.com", password |-> "hunter2"], fresh)
    \/ \E token \in IssuedTokens : refresh_token(token)
    \/ \E token \in IssuedTokens, password_data \in PasswordChange, fresh \in Salts :
           change_password(token, password_data, fresh)

SpecToken == Init /\ [][NextToken]_vars

\* the entries of issued that a verify_token just answered, at the time given
VerifiedAt(time) ==
    {e \in issued : resp.op = "verify_token" /\ e.token = resp.req.token
                    /\ resp.req.time = time}

\* C6: verify_token applied to the token create_jwt_token({sub: uid}) produced,
\* at the instant of issue, returns uid.
C6_TokenRoundTrip ==
    \A e \in issued :
        (e.data.sub # NoId /\ e \in VerifiedAt(e.at)) =>
            /\ resp.status = 200
            /\ resp.body.user_id = e.data.sub

\* a token was verified at the instant it was issued
C6_Witness ==
    \E e \in issued : e.data.sub # NoId /\ e \in VerifiedAt(e.at) /\ resp.status = 200

\* whether verify_token accepts a token at clock t
Passes(token, t) == verify_token(token, t).http.status = 200

Fails401(token, t) == verify_token(token, t).http.status = 401

\* the tokens issued with a sub
SubTokens == {e \in issued : e.data.sub # NoId}

\* once rejected as expired, never accepted again; and a step that leaves the
\* clock alone leaves every verdict alone
TokenVerdictsMove ==
    \A e \in SubTokens :
        /\ (jwt_decode(e.token, now) = "ExpiredSignatureError") => Fails401(e.token, now')
        /\ (now' = now /\ Passes(e.token, now)) => Passes(e.token, now')

\* C7 as stated: an issued token passes verify_token at every time before
\* issue time + 1800 s and fails with 401 at every time after it; valid ->
\* expired is its only transition, and no other operation makes an unexpired
\* token fail.
C7_ValidUntilIssuePlus1800 ==
    [][/\ \A e \in SubTokens' :
              /\ (now' < e.at + JWT_EXPIRE * TicksPerSec) => Passes(e.token, now')
              /\ (now' > e.at + JWT_EXPIRE * TicksPerSec) => Fails401(e.token, now')
       /\ TokenVerdictsMove]_vars

\* C7, amended: an issued token passes verify_token at every time before the
\* whole second (issue time rounded down) + 1800 s and fails with 401 at every
\* time after issue time + 1800 s; valid -> expired is its only transition,
\* and no other operation makes an unexpired token fail.
C7_ValidUntilExpClaim ==
    [][/\ \A e \in SubTokens' :
              /\ (now' < ((e.at \div TicksPerSec) + JWT_EXPIRE) * TicksPerSec)
                     => Passes(e.token, now')
              /\ (now' > e.at + JWT_EXPIRE * TicksPerSec) => Fails401(e.token, now')
       /\ TokenVerdictsMove]_vars

\* an issued token was presented after its expiry and rejected
C7_Witness ==
    /\ resp.op = "verify_token"
    /\ resp.status = 401
    /\ \E e \in SubTokens :
           /\ e.token = resp.req.token
           /\ jwt_decode(e.token, resp.req.time) = "ExpiredSignatureError"

-----------------------------------------------------------------------------
(* The handlers behind get_current_user, on a store that holds users *)

\* the users of the store: two sales reps, a manager and an admin, registered
\* with the password "hunter2"
Staff ==
    {RegisterRow(1, [name |-> "Ann", email |-> "a@x.com", password |-> "hunter2",
                     role |-> "sales_rep"], "5a17"),
     RegisterRow(2, [name |-> "Bob", email |-> "b@x.com", password |-> "hunter2",
                     role |-> "sales_rep"], "5a17"),
     RegisterRow(3, [name |-> "Cy", email |-> "c@x.com", password |-> "hunter2",
                     role |-> "manager"], "5a17"),
     RegisterRow(4, [name |-> "Di", email |-> "d@x.com", password |-> "hunter2",
                     role |-> "admin"], "5a17")}

StaffIds == {u.id : u \in Staff}

\* the instant at which a token issued at 0 has expired
Later == JWT_EXPIRE * TicksPerSec

InitCrm ==
    /\ users = Staff
    /\ customers = {}
    /\ deals = {}
    /\ audit_logs = <<>>
    /\ seq = [users |-> Cardinality(Staff), customers |-> 0, deals |-> 0]
    /\ audit_up = TRUE
    /\ now = Later
    /\ issued = {}
    /\ resp = NoReply
    /\ inflight = {}

\* the token a login of user_id at instant t would carry
TokenOf(user_id, t) == create_jwt_token([sub |-> user_id], t)

\* tokens that do not pass verify_token now: signed with another key, no
\* token at all, issued at 0 and expired by now, and without sub
BadTokens ==
    {[TokenOf(1, Later) EXCEPT !.key = OTHER_KEY], Garbage, TokenOf(1, 0), TokenOf(NoId, Later)}

\* the tokens presented to the endpoints: the first sales rep's and the bad ones
AuthTokens == {TokenOf(1, Later)} \cup BadTokens

\* the record the requests name: the first of its table
Named1 == {1}

\* every endpoint that depends on get_current_user, and DELETE /users/{user_id}
NextAuth ==
    \/ \E applied \in BOOLEAN : delete_user(1, applied)
    \/ \E token \in AuthTokens, id \in Named1 :
        \/ refresh_token(token)
        \/ get_current_user_info(token)
        \/ change_password(token, [current_password |-> "hunter2",
                                   new_password |-> "hunter2"], "5a17")
        \/ list_customers(token, UNSET)
        \/ create_customer(token, [name |-> "Acme", assigned_to |-> 1])
        \/ update_customer(token, id, [name |-> "Acme", assigned_to |-> UNSET])
        \/ delete_customer(token, id)
        \/ get_customer(token, id)
        \/ list_deals(token, UNSET)
        \/ create_deal(token, [title |-> "Renewal", assigned_to |-> UNSET,
                               customer_id |-> UNSET])
        \/ update_deal(token, id, [title |-> "Renewal", assigned_to |-> UNSET,
                                   customer_id |-> UNSET])
        \/ delete_deal(token, id)
        \/ get_deal(token, id)
        \/ get_audit_logs(token, UNSET)
        \/ get_user_audit_logs(token, 1)
        \/ get_resource_audit_logs(token, "customer", id)
        \/ gen_email(token, id)
        \/ \E answered \in BOOLEAN : meeting_prep(token, id, answered)
        \/ handle_objection(token)

SpecAuth == InitCrm /\ [][NextAuth]_vars

\* the tokens of the two sales reps, of the manager and of the admin
ActorTokens == {TokenOf(s, Later) : s \in StaffIds}

\* the admin's token
AdminToken == TokenOf(4, Later)

\* customers and deals: the admin creates them, they are assigned to one of
\* the two sales reps, and the four users read, write and delete them
NextCrm ==
    \/ create_customer(AdminToken, [name |-> "Acme", assigned_to |-> UNSET])
    \/ create_deal(AdminToken, [title |-> "Renewal", assigned_to |-> UNSET,
                                customer_id |-> UNSET])
    \/ \E id \in Named1, a \in {1, 2} :
        \/ assign_customer(id, [assigned_to |-> a])
        \/ assign_deal(id, [assigned_to |-> a])
    \/ \E token \in ActorTokens, id \in Named1, a \in {UNSET, 2} :
        \/ update_customer(token, id, [name |-> "Acme", assigned_to |-> a])
        \/ delete_customer(token, id)
        \/ get_customer(token, id)
        \/ update_deal(token, id, [title |-> "Renewal", assigned_to |-> a,
                                   customer_id |-> UNSET])
        \/ delete_deal(token, id)
        \/ get_deal(token, id)

SpecCrm == InitCrm /\ [][NextCrm]_vars

-----------------------------------------------------------------------------
(* Properties of the token check and of the ownership check *)

\* the handlers whose signature has current_user = Depends(get_current_user)
\* and which a request reaches
GuardedOps ==
    {"refresh_token", "get_current_user_info", "change_password",
     "list_customers", "create_customer", "update_customer", "delete_customer",
     "get_customer", "list_deals", "create_deal", "update_deal", "delete_deal",
     "get_deal", "get_audit_logs", "get_user_audit_logs", "get_resource_audit_logs",
     "gen_email", "meeting_prep"}

\* the four ways a token is bad at clock t
Malformed(token) == token.form # "jwt"

InvalidSignature(token) == token.form = "jwt" /\ token.key # JWT_KEY

Expired(token, t) ==
    token.form = "jwt" /\ token.key = JWT_KEY /\ token.exp * TicksPerSec <= t

WithoutSub(token, t) ==
    /\ token.form = "jwt"
    /\ token.key = JWT_KEY
    /\ token.exp * TicksPerSec > t
    /\ token.sub = NoId

\* a correctly signed, unexpired token with a sub
SoundToken(token, t) ==
    /\ token.form = "jwt"
    /\ token.key = JWT_KEY
    /\ token.exp * TicksPerSec > t
    /\ token.sub # NoId

\* C8: on every endpoint that depends on get_current_user, a request whose
\* token has an invalid signature, is malformed, is expired or has no sub is
\* answered 401 with one and the same detail, the handler body is not run, and
\* users, customers, deals and audit_logs are unchanged.
C8_BadTokenIs401 ==
    [][(/\ resp'.op \in GuardedOps
        /\ \/ Malformed(resp'.req.token)
           \/ InvalidSignature(resp'.req.token)
           \/ Expired(resp'.req.token, now)
           \/ WithoutSub(resp'.req.token, now)) =>
          /\ resp'.status = 401
          /\ resp'.detail = "Could not validate credentials"
          /\ resp'.body = NoBody
          /\ UNCHANGED <<tables, seq>>]_vars

\* each of the four kinds of bad token is among those presented, and one of
\* them was just turned away from a store that holds a customer and a deal
C8_Witness ==
    /\ \E token \in BadTokens : Malformed(token)
    /\ \E token \in BadTokens : InvalidSignature(token)
    /\ \E token \in BadTokens : Expired(token, now)
    /\ \E token \in BadTokens : WithoutSub(token, now)
    /\ resp.op = "delete_customer"
    /\ WithoutSub(resp.req.token, now)
    /\ resp.status = 401
    /\ customers # {}
    /\ deals # {}

\* C9: a correctly signed, unexpired token whose sub matches no users row is
\* rejected with 401 by every endpoint that depends on get_current_user and
\* nothing is run; a request that is not answered 401 carried a token whose
\* sub is the id of a row the users table holds at that moment.
C9_UnknownUserIs401 ==
    [][(resp'.op \in GuardedOps) =>
          /\ (/\ SoundToken(resp'.req.token, now)
              /\ ~\E u \in users : u.id = resp'.req.token.sub) =>
                 /\ resp'.status = 401
                 /\ resp'.body = NoBody
                 /\ UNCHANGED <<tables, seq>>
          /\ (resp'.status # 401) =>
                 \E u \in users : u.id = resp'.req.token.sub]_vars

\* the token of a user whose row was removed was just turned away, after the
\* removal of the row was answered
C9_Witness ==
    /\ resp.op = "get_current_user_info"
    /\ SoundToken(resp.req.token, now)
    /\ resp.req.token.sub \in StaffIds
    /\ ~\E u \in users : u.id = resp.req.token.sub
    /\ resp.status = 401
    /\ resp.detail = "User not found"

\* the record a request on /customers/{id} or /deals/{deal_id} names
CustomerOps == {"get_customer", "update_customer", "delete_customer"}

DealOps == {"get_deal", "update_deal", "delete_deal"}

Named(op, id) ==
    IF op \in CustomerOps THEN {c \in customers : c.id = id}
    ELSE {d \in deals : d.id = id}

NamedAfter(op, id) ==
    IF op \in CustomerOps THEN {c \in customers' : c.id = id}
    ELSE {d \in deals' : d.id = id}

\* the user a sound token stands for
Actor(token) == {u \in users : u.id = token.sub}

\* the operation went through: GET returns the record, DELETE removes it, PUT
\* writes the body's fields to it (or names a user that does not exist and is
\* answered 400)
Carried(op, req, row) ==
    CASE op \in {"get_customer", "get_deal"} ->
             /\ resp'.status = 200
             /\ resp'.body = Row(row)
             /\ UNCHANGED <<customers, deals>>
      [] op \in {"delete_customer", "delete_deal"} ->
             /\ NamedAfter(op, req.id) = {}
             /\ resp'.status \in {200, 500}
      [] op \in {"update_customer", "update_deal"} ->
             \/ /\ resp'.status = 400
                /\ req.assigned_to \notin {UNSET, NoId}
                /\ ~\E u \in users : u.id = req.assigned_to
                /\ UNCHANGED <<customers, deals>>
             \/ /\ resp'.status = 200
                /\ \E new \in NamedAfter(op, req.id) :
                       /\ resp'.body = Rows({new})
                       /\ new.assigned_to = IF req.assigned_to = UNSET
                                            THEN row.assigned_to
                                            ELSE req.assigned_to

\* C10: GET, PUT and DELETE on /customers/{id} and /deals/{deal_id} with an
\* existing record: a sales_rep is answered 403, with nothing returned and
\* nothing changed, when the record's assigned_to is absent or is not the
\* rep's id; the operation is allowed when assigned_to is the rep's id, and
\* for a manager or an admin whatever assigned_to is.
C10_OwnershipCheck ==
    [][(resp'.op \in CustomerOps \cup DealOps) =>
          \A actor \in Actor(resp'.req.token), row \in Named(resp'.op, resp'.req.id) :
              IF actor.role = "sales_rep"
                 /\ (row.assigned_to = NoId \/ row.assigned_to # actor.id)
              THEN /\ resp'.status = 403
                   /\ resp'.body = NoBody
                   /\ UNCHANGED <<tables, seq>>
              ELSE /\ actor.role \in {"sales_rep", "manager", "admin"}
                   /\ resp'.status # 403
                   /\ Carried(resp'.op, resp'.req, row)]_vars

\* a sales_rep was just refused a customer that nobody is assigned to, and the
\* customer is still there
C10_Witness ==
    /\ resp.op = "update_customer"
    /\ resp.status = 403
    /\ \E actor \in Actor(resp.req.token) : actor.role = "sales_rep"
    /\ \E c \in customers : c.id = resp.req.id /\ c.assigned_to = NoId

-----------------------------------------------------------------------------
(* Properties of access without a token *)

\* the request carried a token that verify_token accepts and whose sub is the
\* id of a users row
Authenticated(req) ==
    /\ "token" \in DOMAIN req
    /\ SoundToken(req.token, now)
    /\ \E u \in users : u.id = req.token.sub

\* the step returns records to the caller
ReturnsRecords == resp'.status = 200 /\ resp'.body.kind \in {"row", "rows"}

\* C11: a customer, deal or user record is returned, created, modified,
\* reassigned or deleted only by a request whose bearer token was verified and
\* resolved to an existing users row; no request without a valid token reads
\* or changes any customer, deal or user record.
C11_OnlyAuthenticatedAccess ==
    [][(\/ users' # users
        \/ customers' # customers
        \/ deals' # deals
        \/ ReturnsRecords) => Authenticated(resp'.req)]_vars

-----------------------------------------------------------------------------
(* Listing customers and deals *)

\* the assigned_to query parameter: absent, or the id of a sales rep
Filters == {UNSET, 1, 2}

\* the admin creates customers and deals, they are assigned to one of the two
\* sales reps, and the users list them
NextList ==
    \/ create_customer(AdminToken, [name |-> "Acme", assigned_to |-> UNSET])
    \/ create_deal(AdminToken, [title |-> "Renewal", assigned_to |-> UNSET,
                                customer_id |-> UNSET])
    \/ \E id \in Named1, a \in {1, 2} :
        \/ assign_customer(id, [assigned_to |-> a])
        \/ assign_deal(id, [assigned_to |-> a])
    \/ \E token \in {TokenOf(1, Later), AdminToken}, assigned_to \in Filters :
           list_customers(token, assigned_to)
    \/ \E token \in ActorTokens, assigned_to \in Filters : list_deals(token, assigned_to)

SpecList == InitCrm /\ [][NextList]_vars

\* the table a listing reads
Listed(op) == IF op = "list_customers" THEN customers ELSE deals

\* C12: GET /customers and GET /deals return exactly the records whose
\* assigned_to equals the filter when a non-empty filter is given, whatever the
\* caller's role; otherwise, for a sales_rep, exactly the records whose
\* assigned_to is the caller's id; otherwise, for a manager or an admin, all
\* records.
C12_ListingScope ==
    [][(resp'.op \in {"list_customers", "list_deals"}) =>
          \A actor \in Actor(resp'.req.token) :
              /\ resp'.status = 200
              /\ resp'.body.kind = "rows"
              /\ resp'.body.rows =
                     IF resp'.req.assigned_to \notin {UNSET, NoId}
                     THEN {r \in Listed(resp'.op) : r.assigned_to = resp'.req.assigned_to}
                     ELSE IF actor.role = "sales_rep"
                     THEN {r \in Listed(resp'.op) : r.assigned_to = actor.id}
                     ELSE IF actor.role \in {"manager", "admin"}
                     THEN Listed(resp'.op)
                     ELSE {}]_vars

\* a sales rep listed the deals without a filter, was given their own deal,
\* and the table holds a deal
C12_Witness ==
    /\ resp.op = "list_deals"
    /\ resp.req.assigned_to = UNSET
    /\ \E actor \in Actor(resp.req.token) :
           /\ actor.role = "sales_rep"
           /\ resp.body.rows = {d \in deals : d.assigned_to = actor.id}
           /\ resp.body.rows # {}

-----------------------------------------------------------------------------
(* Viewing the audit log *)

AuditViews == {"get_audit_logs", "get_user_audit_logs", "get_resource_audit_logs"}

\* the caller a view is open to: a manager or an admin, and for the view of one
\* user's trail that user as well
MayView(op, req, actor) ==
    \/ actor.role \in {"manager", "admin"}
    \/ op = "get_user_audit_logs" /\ actor.id = req.user_id

\* the events a view selects
Viewed(op, req) ==
    CASE op = "get_audit_logs" ->
             {e \in AuditRows : req.user_id \in {UNSET, NoId} \/ e.user_id = req.user_id}
      [] op = "get_user_audit_logs" -> {e \in AuditRows : e.user_id = req.user_id}
      [] op = "get_resource_audit_logs" ->
             {e \in AuditRows : e.type = req.type /\ e.resource_id = req.resource_id}

\* C13: GET /audit-logs and GET /audit-logs/resource/... return audit events
\* to a manager or an admin and answer 403 with no events to any other caller;
\* GET /audit-logs/user/{user_id} returns that user's events to the user
\* themselves and to a manager or an admin, and answers 403 otherwise.
C13_AuditViewAccess ==
    [][(resp'.op \in AuditViews /\ Authenticated(resp'.req)) =>
          \A actor \in Actor(resp'.req.token) :
              IF MayView(resp'.op, resp'.req, actor)
              THEN /\ resp'.status = 200
                   /\ resp'.body = Rows(Viewed(resp'.op, resp'.req))
              ELSE /\ resp'.status = 403
                   /\ resp'.body = NoBody]_vars

-----------------------------------------------------------------------------
(* Audit logging and the operation it accompanies *)

\* the handlers that call log_audit_event
AuditedOps ==
    {"register", "login", "list_customers", "create_customer", "update_customer",
     "delete_customer"} \cup AuditViews

\* C14: for every operation that emits an audit event, what the audit step
\* does never turns the operation into an error: a request whose write to
\* users or customers was carried out is answered 200, and a failing
\* audit_logs insert leaves the audit log as it was and nothing else.
C14_AuditNeverFailsOperation ==
    [][(resp'.op \in AuditedOps) =>
          /\ (users' # users \/ customers' # customers) => resp'.status = 200
          /\ ~audit_up => audit_logs' = audit_logs]_vars

-----------------------------------------------------------------------------
(* The audit log over time *)

\* C15: the audit log is append-only: whatever the operation, the events
\* written before it are all still there afterwards, unmodified and in their
\* order, so the log only grows.
C15_AuditAppendOnly ==
    [][/\ Len(audit_logs') >= Len(audit_logs)
       /\ SubSeq(audit_logs', 1, Len(audit_logs)) = audit_logs]_vars

\* an event was written after another one, which is still there
C15_Witness ==
    /\ Len(audit_logs) >= 2
    /\ audit_logs[1].action = "CREATE"
    /\ audit_logs[2].action \in {"READ", "UPDATE"}

-----------------------------------------------------------------------------
(* Invariants of the users table *)

\* C16: in every reachable state no two user records share an email, whether
\* the records come from POST /auth/register or from POST /users.
C16_EmailUnique ==
    \A u \in users, v \in users : u.email = v.email => u = v

-----------------------------------------------------------------------------
(* Registration, POST /users and change of password on an empty store *)

\* what secrets.token_hex(32) may return in a call
FreshSalts == {"5a17", "9c3e"}

\* the bodies of POST /auth/register: role is any string
Registrations ==
    [name : {"Ann"}, email : Emails, password : {"hunter2"}, role : {"sales_rep", "intern"}]

NextUsers ==
    \/ \E user_data \in Registrations, fresh \in FreshSalts : register(user_data, fresh)
    \/ \E email \in Emails, accepted \in BOOLEAN : create_user("Ann", email, "hunter2", accepted)
    \/ \E id \in UserIds, password_data \in PasswordChange, fresh \in FreshSalts :
           change_password(TokenOf(id, 0), password_data, fresh)

SpecUsers == Init /\ [][NextUsers]_vars

\* C17: in every reachable state every user record holds a password_hash
\* together with the password_salt it was computed with, and none stores a
\* plaintext password, whichever operation wrote the record.
C17_PasswordsHashed ==
    \A u \in users :
        /\ u.password = NULL
        /\ u.password_salt # NULL
        /\ \E p \in Passwords : u.password_hash = Sha256Rounds(p \o u.password_salt)

\* C18: in every reachable state the role of every user record is one of
\* sales_rep, manager, admin.
C18_RoleInFixedSet ==
    \A u \in users : u.role \in {"sales_rep", "manager", "admin"}

-----------------------------------------------------------------------------
(* Change of password *)

\* the password verifies against the stored pair of a row
Verifies(password, row) ==
    /\ row.password_salt # NULL
    /\ row.password_hash = Sha256Rounds(password \o row.password_salt)

\* C19: POST /auth/change-password replaces the caller's stored hash and salt
\* if and only if current_password verifies against the stored pair: if not,
\* the answer is 400 and the users table is unchanged; if so, the caller's
\* pair afterwards verifies new_password with a salt of this call's
\* generator, and no other record is changed.
C19_ChangePassword ==
    [][(resp'.op = "change_password" /\ Authenticated(resp'.req)) =>
          \A u \in Actor(resp'.req.token) :
              IF Verifies(resp'.req.current_password, u)
              THEN /\ resp'.status = 200
                   /\ \E v \in users' :
                          /\ v.id = u.id
                          /\ v.password_salt \in FreshSalts
                          /\ Verifies(resp'.req.new_password, v)
                          /\ v = [u EXCEPT !.password_hash = v.password_hash,
                                           !.password_salt = v.password_salt]
                          /\ users' \ {v} = users \ {u}
              ELSE /\ resp'.status = 400
                   /\ users' = users
                   /\ \A p \in Passwords, v \in users' :
                          v.id = u.id => (Verifies(p, v) <=> Verifies(p, u))]_vars

\* a user changed their password to another one under another salt, while the
\* table holds a second user with a password of their own
C19_Witness ==
    /\ resp.op = "change_password"
    /\ resp.status = 200
    /\ resp.req.new_password # resp.req.current_password
    /\ \E u \in Actor(resp.req.token) :
           /\ Verifies(resp.req.new_password, u)
           /\ \E v \in users : v.id # u.id /\ v.password_salt \notin {NULL, u.password_salt}

-----------------------------------------------------------------------------
(* custom_hash_password and verify as functions *)

\* passwords and salts, two of the pairs having one concatenation
HashPasswords == {"hunter", "hunter2", "hunter3"}

HashSalts == {"5a17", "25a17"}

\* the arguments of a call custom_hash_password(password, salt), salt None
\* when the caller supplies none
InitHash ==
    /\ users = {}
    /\ customers = {}
    /\ deals = {}
    /\ audit_logs = <<>>
    /\ seq = [users |-> 0, customers |-> 0, deals |-> 0]
    /\ audit_up = TRUE
    /\ now = 0
    /\ issued = {}
    /\ inflight = {}
    /\ resp \in {Reply("arguments", [password |-> password, salt |-> salt], OK, NoBody) :
                     password \in HashPasswords, salt \in HashSalts \cup {NULL}}

\* a call custom_hash_password(password, salt)
HashPassword(fresh) ==
    /\ resp.op = "arguments"
    /\ LET h == custom_hash_password(resp.req.password, resp.req.salt, fresh)
       IN  resp' = Reply("custom_hash_password",
                         [password |-> resp.req.password, salt |-> resp.req.salt,
                          fresh |-> fresh],
                         OK, [kind |-> "hash", hashed |-> h.hashed, salt |-> h.salt])
    /\ UNCHANGED <<users, customers, deals, audit_logs, seq, audit_up, now, issued, inflight>>

\* a call verify(password, hashed, salt) against a digest computed before
VerifyPassword(password, salt, fresh) ==
    /\ resp.op = "custom_hash_password"
    /\ resp' = Reply("verify",
                     [password |-> password, hashed |-> resp.body.hashed, salt |-> salt,
                      fresh |-> fresh],
                     OK, [kind |-> "bool",
                          value |-> verify(password, resp.body.hashed, salt, fresh)])
    /\ UNCHANGED <<users, customers, deals, audit_logs, seq, audit_up, now, issued, inflight>>

NextHash ==
    \/ \E fresh \in FreshSalts : HashPassword(fresh)
    \/ \E password \in HashPasswords, salt \in HashSalts \cup {NULL}, fresh \in FreshSalts :
           VerifyPassword(password, salt, fresh)

SpecHash == InitHash /\ [][NextHash]_vars

\* C20: with a salt supplied custom_hash_password returns that salt unchanged
\* and a digest that depends on (password, salt) only; verify(p, h, s) is true
\* if and only if the digest of custom_hash_password(p, s) equals h.
C20_HashDeterministic ==
    /\ (resp.op = "custom_hash_password" /\ resp.req.salt # NULL) =>
           /\ resp.body.salt = resp.req.salt
           /\ resp.body.hashed = Sha256Rounds(resp.req.password \o resp.req.salt)
           /\ \A fresh \in FreshSalts :
                  custom_hash_password(resp.req.password, resp.req.salt, fresh)
                      = [hashed |-> resp.body.hashed, salt |-> resp.body.salt]
    /\ (resp.op = "verify") =>
           (resp.body.value <=>
                custom_hash_password(resp.req.password, resp.req.salt,
                                     resp.req.fresh).hashed = resp.req.hashed)

\* a password was verified against the digest of another password and salt
\* with the same concatenation
C20_Witness ==
    /\ resp.op = "verify"
    /\ resp.body.value
    /\ resp.req.password = "hunter"
    /\ resp.req.salt = "25a17"
    /\ resp.req.hashed = Sha256Rounds("hunter2" \o "5a17")

-----------------------------------------------------------------------------
(* Requests served concurrently: the handlers are plain def functions, each
   request runs on a worker thread and every db.table(...).execute() is a
   round trip between which other requests run *)

\* the worker threads that hold a request between its select and its write
MaxInflight == 2

\* the first statements of PUT and DELETE on /customers/{id} and
\* /deals/{deal_id}: the token's user, the select of the row and the ownership
\* check; a request that passes is held with the user and the row it read
Admit(op, req, token, existing, not_found, detail) ==
    LET current == get_current_user(token, now)
    IN  /\ IF current.http.status # 200
           THEN /\ resp' = Reply(op, req, current.http, NoBody)
                /\ UNCHANGED inflight
           ELSE IF existing = {}
           THEN /\ resp' = Reply(op, req, not_found, NoBody)
                /\ UNCHANGED inflight
           ELSE \E old \in existing :
                IF NotOwner(current.user, old)
                THEN /\ resp' = Reply(op, req, Forbidden(detail), NoBody)
                     /\ UNCHANGED inflight
                ELSE /\ Cardinality(inflight) < MaxInflight
                     /\ inflight' = inflight \cup
                            {[op |-> op, req |-> req, current_user |-> current.user,
                              existing |-> old]}
                     /\ UNCHANGED resp
        /\ UNCHANGED <<users, customers, deals, audit_logs, seq, audit_up, now, issued>>

\* PUT /customers/{id}, up to the ownership check
update_customer_check(token, id, customer) ==
    Admit("update_customer",
          [token |-> token, id |-> id, name |-> customer.name,
           assigned_to |-> customer.assigned_to],
          token, {c \in customers : c.id = id}, CustomerNotFound,
          "Not authorized to update this customer")

\* PUT /customers/{id}, from the ownership check on: the assigned user is
\* looked up, the rows with this id are updated, the UPDATE event is logged
update_customer_write(r) ==
    LET hit == {c \in customers : c.id = r.req.id}
        new == {Updated(c, r.req.name, r.req.assigned_to) : c \in hit}
    IN  /\ r \in inflight
        /\ r.op = "update_customer"
        /\ inflight' = inflight \ {r}
        /\ IF Truthy(r.req.assigned_to) /\ ~UserExists(r.req.assigned_to)
           THEN /\ resp' = Reply("update_customer", r.req, AssignedUserNotFound, NoBody)
                /\ UNCHANGED <<customers, audit_logs>>
           ELSE /\ AuditRoom
                /\ customers' = (customers \ hit) \cup new
                /\ log_audit_event(AuditEvent(r.current_user.id, "UPDATE",
                                              "customer", r.req.id, "-"))
                /\ resp' = Reply("update_customer", r.req, OK, Rows(new))
        /\ UNCHANGED <<users, deals, seq, audit_up, now, issued>>

\* DELETE /customers/{id}, up to the ownership check
delete_customer_check(token, id) ==
    Admit("delete_customer", [token |-> token, id |-> id], token,
          {c \in customers : c.id = id}, CustomerNotFound,
          "Not authorized to delete this customer")

\* DELETE /customers/{id}, from the ownership check on: the rows with this id
\* are deleted, 404 when there was none, then the DELETE event is logged
delete_customer_write(r) ==
    LET hit == {c \in customers : c.id = r.req.id}
    IN  /\ r \in inflight
        /\ r.op = "delete_customer"
        /\ inflight' = inflight \ {r}
        /\ customers' = customers \ hit
        /\ IF hit = {}
           THEN /\ resp' = Reply("delete_customer", r.req, CustomerNotFound, NoBody)
                /\ UNCHANGED audit_logs
           ELSE IF KwargsSplatRaises(get_client_info)
           THEN /\ resp' = Reply("delete_customer", r.req, InternalServerError, NoBody)
                /\ UNCHANGED audit_logs
           ELSE /\ AuditRoom
                /\ log_audit_event(AuditEvent(r.current_user.id, "DELETE",
                                              "customer", r.req.id, "-"))
                /\ resp' = Reply("delete_customer", r.req, OK, [kind |-> "ok"])
        /\ UNCHANGED <<users, deals, seq, audit_up, now, issued>>

\* PUT /deals/{deal_id}, up to the ownership check
update_deal_check(token, deal_id, deal) ==
    Admit("update_deal",
          [token |-> token, id |-> deal_id, title |-> deal.title,
           assigned_to |-> deal.assigned_to, customer_id |-> deal.customer_id],
          token, {d \in deals : d.id = deal_id}, DealNotFound,
          "Not authorized to update this deal")

\* PUT /deals/{deal_id}, from the ownership check on
update_deal_write(r) ==
    LET hit == {d \in deals : d.id = r.req.id}
        new == {UpdatedDeal(d, r.req) : d \in hit}
    IN  /\ r \in inflight
        /\ r.op = "update_deal"
        /\ inflight' = inflight \ {r}
        /\ IF Truthy(r.req.assigned_to) /\ ~UserExists(r.req.assigned_to)
           THEN /\ resp' = Reply("update_deal", r.req, AssignedUserNotFound, NoBody)
                /\ UNCHANGED deals
           ELSE /\ deals' = (deals \ hit) \cup new
                /\ resp' = Reply("update_deal", r.req, OK, Rows(new))
        /\ UNCHANGED <<users, customers, audit_logs, seq, audit_up, now, issued>>

\* DELETE /deals/{deal_id}, up to the ownership check
delete_deal_check(token, deal_id) ==
    Admit("delete_deal", [token |-> token, id |-> deal_id], token,
          {d \in deals : d.id = deal_id}, DealNotFound,
          "Not authorized to delete this deal")

\* DELETE /deals/{deal_id}, from the ownership check on
delete_deal_write(r) ==
    LET hit == {d \in deals : d.id = r.req.id}
    IN  /\ r \in inflight
        /\ r.op = "delete_deal"
        /\ inflight' = inflight \ {r}
        /\ deals' = deals \ hit
        /\ resp' = IF hit = {}
                   THEN Reply("delete_deal", r.req, DealNotFound, NoBody)
                   ELSE Reply("delete_deal", r.req, OK, [kind |-> "ok"])
        /\ UNCHANGED <<users, customers, audit_logs, seq, audit_up, now, issued>>

\* the tokens of the two sales reps
RepTokens == {TokenOf(1, Later), TokenOf(2, Later)}

\* the admin creates a customer and a deal, both are assigned and reassigned
\* between the two sales reps while the reps' writes and deletes are under way
NextRace ==
    \/ create_customer(AdminToken, [name |-> "Acme", assigned_to |-> UNSET])
    \/ create_deal(AdminToken, [title |-> "Renewal", assigned_to |-> UNSET,
                                customer_id |-> UNSET])
    \/ \E id \in Named1, a \in {1, 2} :
        \/ assign_customer(id, [assigned_to |-> a])
        \/ assign_deal(id, [assigned_to |-> a])
    \/ \E token \in RepTokens, id \in Named1 :
        \/ update_customer_check(token, id, [name |-> "Acme Ltd", assigned_to |-> UNSET])
        \/ delete_customer_check(token, id)
        \/ update_deal_check(token, id, [title |-> "Renewal 2", assigned_to |-> UNSET,
                                         customer_id |-> UNSET])
        \/ delete_deal_check(token, id)
    \/ \E r \in inflight : update_customer_write(r)
    \/ \E r \in inflight : delete_customer_write(r)
    \/ \E r \in inflight : update_deal_write(r)
    \/ \E r \in inflight : delete_deal_write(r)

SpecRace == InitCrm /\ [][NextRace]_vars

\* the table a held request writes to
Table(r) == IF r.op \in {"update_customer", "delete_customer"} THEN customers ELSE deals

(* C21: under any interleaving of a sales rep's PUT or DELETE on
   /customers/{id} or /deals/{deal_id} with a reassignment of the same record,
   the write or delete is applied only if the record is assigned to the rep
   at the moment it is applied. *)
C21_CheckAndWriteSameState ==
    [][\A r \in inflight \ inflight' :
          (r.current_user.role = "sales_rep"
              /\ (customers' # customers \/ deals' # deals))
          => \E row \in Table(r) :
                row.id = r.req.id /\ row.assigned_to = r.current_user.id]_vars

-----------------------------------------------------------------------------
(* Who a record is assigned to *)

\* an id no users row has
Stranger == 9

\* POST /customers/{id}/deals: no token is asked for and assigned_to is not
\* looked up; a deal without one inherits the customer's.  enforced: whether
\* the store refuses a row whose assigned_to no users row has (the schema is
\* the store's, not the repository's)
create_customer_deal(id, deal, enforced) ==
    LET req == [id |-> id, title |-> deal.title, assigned_to |-> deal.assigned_to]
        customer == {c \in customers : c.id = id}
        deal_id == seq.deals + 1
    IN  /\ IF customer = {}
           THEN /\ resp' = Reply("create_customer_deal", req, CustomerNotFound, NoBody)
                /\ UNCHANGED <<deals, seq>>
           ELSE \E c \in customer :
                LET assigned_to == IF ~Truthy(deal.assigned_to) /\ Truthy(c.assigned_to)
                                   THEN c.assigned_to
                                   ELSE deal.assigned_to
                    row == [id |-> deal_id, title |-> deal.title,
                            assigned_to |-> Column(assigned_to), customer_id |-> id]
                IN  IF enforced /\ Truthy(assigned_to) /\ ~UserExists(assigned_to)
                    THEN /\ resp' = Reply("create_customer_deal", req,
                                          InternalServerError, NoBody)
                         /\ UNCHANGED <<deals, seq>>
                    ELSE /\ seq.deals < MaxDeals
                         /\ deals' = deals \cup {row}
                         /\ seq' = [seq EXCEPT !.deals = deal_id]
                         /\ resp' = Reply("create_customer_deal", req, OK, Rows({row}))
        /\ UNCHANGED <<users, customers, audit_logs, audit_up, now, issued, inflight>>

\* POST /import/customers with one row in the file: a csv row keeps name,
\* email, company and phone, a json row is inserted as it is; rows without a
\* name are dropped; any exception is answered 400.  enforced: as above
import_customers(ext, row, enforced) ==
    LET req == [ext |-> ext, name |-> row.name, assigned_to |-> row.assigned_to]
        id == seq.customers + 1
        assigned_to == IF ext = "csv" THEN UNSET ELSE row.assigned_to
        new == [id |-> id, name |-> row.name, assigned_to |-> Column(assigned_to)]
    IN  /\ IF enforced /\ Truthy(assigned_to) /\ ~UserExists(assigned_to)
           THEN /\ resp' = Reply("import_customers", req,
                                 HTTPException(400, "Error processing file", NoHeaders),
                                 NoBody)
                /\ UNCHANGED <<customers, seq>>
           ELSE /\ seq.customers < MaxCustomers
                /\ customers' = customers \cup {new}
                /\ seq' = [seq EXCEPT !.customers = id]
                /\ resp' = Reply("import_customers", req, OK,
                                 [kind |-> "message",
                                  message |-> "Customers imported successfully"])
        /\ UNCHANGED <<users, deals, audit_logs, audit_up, now, issued, inflight>>

\* the users a request names: nobody, the second sales rep, nobody's id
Assignees == {UNSET, 2, Stranger}

\* the admin creates and updates records naming a user, records are assigned,
\* deals are created under a customer, customers are imported, and the second
\* sales rep is deleted
NextRefs ==
    \/ \E a \in Assignees :
        \/ create_customer(AdminToken, [name |-> "Acme", assigned_to |-> a])
        \/ update_customer(AdminToken, 1, [name |-> "Acme", assigned_to |-> a])
        \/ create_deal(AdminToken, [title |-> "Renewal", assigned_to |-> a,
                                    customer_id |-> UNSET])
        \/ update_deal(AdminToken, 1, [title |-> "Renewal", assigned_to |-> a,
                                       customer_id |-> UNSET])
    \/ \E a \in Assignees \ {UNSET} :
        \/ assign_customer(1, [assigned_to |-> a])
        \/ assign_deal(1, [assigned_to |-> a])
    \/ \E a \in {UNSET, Stranger}, enforced \in BOOLEAN :
        \/ create_customer_deal(1, [title |-> "Renewal", assigned_to |-> a], enforced)
        \/ \E ext \in {"csv", "json"} :
               import_customers(ext, [name |-> "Globex", assigned_to |-> a], enforced)
    \/ \E applied \in BOOLEAN : delete_user(2, applied)

SpecRefs == InitCrm /\ [][NextRefs]_vars

\* the handlers that look the assigned user up before they write
AssigningOps ==
    {"create_customer", "update_customer", "create_deal", "update_deal",
     "assign_customer", "assign_deal"}

\* no customer and no deal is assigned to a user that is not there
NoDangling ==
    \A r \in customers \cup deals : r.assigned_to # NoId => UserExists(r.assigned_to)

(* C22: every customer and every deal with a non-null assigned_to references
   an existing user; a create, update or assign request naming a user that
   does not exist is answered 400 and changes nothing; no other operation
   (user deletion, deal creation under a customer, import) leaves a dangling
   assigned_to. *)
C22_ReferentialIntegrity ==
    /\ []NoDangling
    /\ [][(/\ resp'.op \in AssigningOps
           /\ resp'.status \notin {401, 403, 404}
           /\ Truthy(resp'.req.assigned_to)
           /\ ~UserExists(resp'.req.assigned_to))
          => (resp'.status = 400 /\ UNCHANGED tables)]_vars

=============================================================================
